---- MODULE Spec2Model ----
(***************************************************************************)
(* The in-memory todo store of coding_todo.py: the module-level dict       *)
(* `todos`, the four tools that mutate it (add_todo, update_todo_status,   *)
(* update_todo, delete_todo), the two resources (get_todo_list,            *)
(* get_todo_item) and the two prompts (summarize_todos, suggest_next_todo) *)
(* that read it.  Every handler is synchronous, so each is one action.     *)
(*                                                                         *)
(* Encoding.  An Optional[T] value is a set: {} is None, {v} is the value  *)
(* v.  A Python dict is a sequence of entries [key, val] in insertion      *)
(* order.  A datetime is the integer reading of the clock, in              *)
(* microseconds since the module was imported; the clock has moved on      *)
(* whenever the next request arrives.                                      *)
(***************************************************************************)
EXTENDS Integers, Sequences, FiniteSets, TLC

VARIABLES
    todos,        \* the dict `todos`: id -> Todo, in insertion order
    created_dflt, \* the class attribute default of Todo.created_at
    now,          \* the reading of the clock, datetime.now(), at the latest request
    born,         \* history: key -> ordinal of the Todo(...) call that built the task stored there
    nCreated,     \* history: number of Todo(...) constructor calls so far
    horizon,      \* the reading of the clock at which the run under study ends
    last          \* history: the last handler run, its arguments, its outcome, the dict before it

vars == <<todos, created_dflt, now, born, nCreated, horizon, last>>

\* ---------------------------------------------------------------- bounds
MaxTodos == 3      \* add_todo is not called on a store of this size
MaxTime == 3       \* the last reading of the clock at which a request is served
MaxTimeLong == 4   \* the same, for the longer runs of SpecLong

\* ------------------------------------------------------------- Optional[T]
None == {}
Some(v) == {v}
IsNone(o) == o = {}
The(o) == CHOOSE v \in o : TRUE

\* --------------------------------------------------------------- TodoStatus
PENDING == "pending"
IN_PROGRESS == "in_progress"
COMPLETED == "completed"
TodoStatusValues == {PENDING, IN_PROGRESS, COMPLETED}

\* --------------------------------------------------------------- the dict
Keys(d) == {d[i].key : i \in 1..Len(d)}
Has(d, k) == \E i \in 1..Len(d) : d[i].key = k
IndexOf(d, k) == CHOOSE i \in 1..Len(d) : d[i].key = k
Get(d, k) == d[IndexOf(d, k)].val
Values(d) == [i \in 1..Len(d) |-> d[i].val]

\* d[k] = v: a key already present keeps its place, a new key goes last
SetItem(d, k, v) ==
    IF Has(d, k)
    THEN [d EXCEPT ![IndexOf(d, k)] = [key |-> k, val |-> v]]
    ELSE Append(d, [key |-> k, val |-> v])

\* del d[k]
\* (variant: the first entry goes, whatever the key)
DelItemFirst(d, k) == Tail(d)
DelItem(d, k) ==
    LET i == IndexOf(d, k)
    IN  SubSeq(d, 1, i - 1) \o SubSeq(d, i + 1, Len(d))

\* ------------------------------------------------------------------ text
RECURSIVE Join(_, _)
Join(sep, xs) ==
    IF Len(xs) = 0 THEN ""
    ELSE IF Len(xs) = 1 THEN xs[1]
    ELSE xs[1] \o sep \o Join(sep, Tail(xs))

\* f"todo{n}"
TodoId(n) == "todo" \o ToString(n)

\* The Todo model: status, created_at, updated_at defaulted by the class
Todo(id, title, description, project, priority, tags, dflt) ==
    [id |-> id, title |-> title, description |-> description,
     status |-> PENDING, created_at |-> dflt, updated_at |-> None,
     project |-> project, priority |-> priority, tags |-> tags]

\* ------------------------------------------------------------ outcomes
Returned(text) == [raised |-> FALSE, text |-> text]
ValueError(text) == [raised |-> TRUE, text |-> text]
NotFoundMsg(id) == "Todo not found: " \o id
InvalidStatusMsg(status) ==
    "Invalid status: " \o status \o ". Must be one of: pending, in_progress, completed"
InvalidPriorityMsg == "Priority must be between 1 and 5"

\* strftime('%Y-%m-%d %H:%M'): a reading of the clock cut to its minute
MicrosPerMinute == 60000000
Strftime(t) == "minute " \o ToString(t \div MicrosPerMinute)

\* ---------------------------------------------------------------- add_todo
\* todo_id = f"todo{len(todos) + 1}"
\* (variant: the count is not advanced by one)
NewTodoIdZeroBased(d) == TodoId(Len(d))
NewTodoId(d) == TodoId(Len(d) + 1)

\* tags or []
TagsOrEmpty(tags) == IF IsNone(tags) \/ The(tags) = <<>> THEN <<>> ELSE The(tags)

\* (variant: the tags argument is not passed on)
NewTodoDropsTags(id, a, dflt) ==
    Todo(id, a.title, a.description, a.project, a.priority, <<>>, dflt)
NewTodo(id, a, dflt) ==
    Todo(id, a.title, a.description, a.project, a.priority, TagsOrEmpty(a.tags), dflt)

\* (variant: the task is built with the count, the key with the count plus one)
add_todo_store_stale_id(d, a, dflt) ==
    SetItem(d, NewTodoId(d), NewTodo(TodoId(Len(d)), a, dflt))
add_todo_store(d, a, dflt) ==
    SetItem(d, NewTodoId(d), NewTodo(NewTodoId(d), a, dflt))
add_todo_result(d, a) ==
    Returned("Added todo '" \o a.title \o "' with ID: " \o NewTodoId(d))

\* ------------------------------------------------------ update_todo_status
IsTodoStatus(status) == status \in TodoStatusValues

\* (variant: updated_at is stamped before the status is coerced)
StatusStampFirst(todo, status, t) ==
    IF IsTodoStatus(status)
    THEN [todo EXCEPT !.status = status, !.updated_at = Some(t)]
    ELSE [todo EXCEPT !.updated_at = Some(t)]
\* (variant: a completed task is not reopened)
StatusAssignTerminal(todo, status, t) ==
    IF IsTodoStatus(status) /\ todo.status # COMPLETED
    THEN [todo EXCEPT !.status = status, !.updated_at = Some(t)]
    ELSE todo
\* todos[id].status = TodoStatus(status); todos[id].updated_at = datetime.now()
\* (TodoStatus(status) raises before either assignment)
StatusAssign(todo, status, t) ==
    IF IsTodoStatus(status)
    THEN [todo EXCEPT !.status = status, !.updated_at = Some(t)]
    ELSE todo

update_todo_status_store(d, id, status, t) ==
    IF ~Has(d, id) THEN d
    ELSE [d EXCEPT ![IndexOf(d, id)].val = StatusAssign(@, status, t)]
update_todo_status_result(d, id, status) ==
    IF ~Has(d, id) THEN ValueError(NotFoundMsg(id))
    ELSE IF ~IsTodoStatus(status)
    THEN ValueError(InvalidStatusMsg(status))
    ELSE Returned("Updated todo '" \o Get(d, id).title \o "' status to " \o status)

\* -------------------------------------------------------------- delete_todo
delete_todo_store(d, id) == IF ~Has(d, id) THEN d ELSE DelItem(d, id)
delete_todo_result(d, id) ==
    IF ~Has(d, id) THEN ValueError(NotFoundMsg(id))
    ELSE Returned("Deleted todo '" \o Get(d, id).title \o "' (ID: " \o id \o ")")

\* -------------------------------------------------------------- update_todo
\* (variant: the lower bound is off by one)
PriorityInRangeLoose(p) == 0 <= p /\ p <= 5
\* 1 <= priority <= 5
PriorityInRange(p) == 1 <= p /\ p <= 5

\* the assignments made before the priority check: title, description, project
\* (variant: an empty string counts as no argument)
AssignHeadTruthy(todo, a) ==
    LET t1 == IF IsNone(a.title) \/ The(a.title) = "" THEN todo
              ELSE [todo EXCEPT !.title = The(a.title)]
        t2 == IF IsNone(a.description) \/ The(a.description) = "" THEN t1
              ELSE [t1 EXCEPT !.description = The(a.description)]
    IN  IF IsNone(a.project) \/ The(a.project) = "" THEN t2
        ELSE [t2 EXCEPT !.project = Some(The(a.project))]
AssignHead(todo, a) ==
    LET t1 == IF IsNone(a.title) THEN todo ELSE [todo EXCEPT !.title = The(a.title)]
        t2 == IF IsNone(a.description) THEN t1
              ELSE [t1 EXCEPT !.description = The(a.description)]
    IN  IF IsNone(a.project) THEN t2 ELSE [t2 EXCEPT !.project = Some(The(a.project))]

PriorityRejected(a) == ~IsNone(a.priority) /\ ~PriorityInRange(The(a.priority))

\* the assignments made after the priority check: priority, tags, updated_at
\* (variant: the timestamp is left alone)
AssignTailNoStamp(todo, a, t) ==
    LET t4 == IF IsNone(a.priority) THEN todo ELSE [todo EXCEPT !.priority = The(a.priority)]
    IN  IF IsNone(a.tags) THEN t4 ELSE [t4 EXCEPT !.tags = The(a.tags)]
AssignTail(todo, a, t) ==
    LET t4 == IF IsNone(a.priority) THEN todo ELSE [todo EXCEPT !.priority = The(a.priority)]
        t5 == IF IsNone(a.tags) THEN t4 ELSE [t4 EXCEPT !.tags = The(a.tags)]
    IN  [t5 EXCEPT !.updated_at = Some(t)]

\* the task as update_todo leaves it, whether it returns or raises
UpdateAssign(todo, a, t) ==
    IF PriorityRejected(a) THEN AssignHead(todo, a)
    ELSE AssignTail(AssignHead(todo, a), a, t)

update_todo_store(d, id, a, t) ==
    IF ~Has(d, id) THEN d
    ELSE [d EXCEPT ![IndexOf(d, id)].val = UpdateAssign(@, a, t)]
\* (variant: the priority is checked before the id is looked up)
update_todo_result_priority_first(d, id, a) ==
    IF PriorityRejected(a) THEN ValueError(InvalidPriorityMsg)
    ELSE IF ~Has(d, id) THEN ValueError(NotFoundMsg(id))
    ELSE Returned("Updated todo '" \o AssignHead(Get(d, id), a).title
                  \o "' (ID: " \o id \o ")")
update_todo_result(d, id, a) ==
    IF ~Has(d, id) THEN ValueError(NotFoundMsg(id))
    ELSE IF PriorityRejected(a) THEN ValueError(InvalidPriorityMsg)
    ELSE Returned("Updated todo '" \o AssignHead(Get(d, id), a).title
                  \o "' (ID: " \o id \o ")")

\* ------------------------------------------------------------ get_todo_list
ListEntry(e) ==
    (IF e.val.status # COMPLETED THEN "[ ]" ELSE "[x]")
    \o " **" \o e.val.title \o "** (ID: " \o e.key
    \o ", Priority: " \o ToString(e.val.priority) \o ")\n"
    \o (IF e.val.tags # <<>> THEN "   Tags: " \o Join(", ", e.val.tags) \o "\n" ELSE "")

get_todo_list(d) ==
    IF d = <<>> THEN "No todos found."
    ELSE "# Coding Project Todos\n\n" \o Join("", [i \in 1..Len(d) |-> ListEntry(d[i])])

\* ------------------------------------------------------------ get_todo_item
ItemText(todo) ==
    "# Todo: " \o todo.title \o "\n\n"
    \o "**Status:** " \o todo.status \o "\n"
    \o "**Priority:** " \o ToString(todo.priority) \o "/5\n"
    \o "**Created:** " \o Strftime(todo.created_at) \o "\n"
    \o (IF ~IsNone(todo.updated_at)
        THEN "**Updated:** " \o Strftime(The(todo.updated_at)) \o "\n" ELSE "")
    \o (IF ~IsNone(todo.project) /\ The(todo.project) # ""
        THEN "**Project:** " \o The(todo.project) \o "\n" ELSE "")
    \o (IF todo.tags # <<>> THEN "**Tags:** " \o Join(", ", todo.tags) \o "\n" ELSE "")
    \o "\n**Description:**\n" \o todo.description \o "\n"

get_todo_item(d, id) ==
    IF ~Has(d, id) THEN ValueError(NotFoundMsg(id)) ELSE Returned(ItemText(Get(d, id)))

\* ---------------------------------------------------------- summarize_todos
RECURSIVE SelectSeq2(_, _, _)
\* [t for t in xs if Keep(t)] for the two filters of summarize_todos
SelectSeq2(xs, kind, v) ==
    IF xs = <<>> THEN <<>>
    ELSE LET keep == IF kind = "status" THEN xs[1].status = v ELSE xs[1].project = Some(v)
             rest == SelectSeq2(Tail(xs), kind, v)
         IN  IF keep THEN <<xs[1]>> \o rest ELSE rest

\* if project:
Truthy(project) == ~IsNone(project) /\ The(project) # ""

\* (variant: the project filter is not applied)
filtered_todos_any_project(d, status, project) ==
    IF status # "all" THEN SelectSeq2(Values(d), "status", status) ELSE Values(d)
filtered_todos(d, status, project) ==
    LET f1 == IF status # "all" THEN SelectSeq2(Values(d), "status", status) ELSE Values(d)
    IN  IF Truthy(project) THEN SelectSeq2(f1, "project", The(project)) ELSE f1

SummaryLine(t) ==
    "- " \o t.title \o " (Priority: " \o ToString(t.priority) \o "): " \o t.description

\* the prompt text for the selected tasks f
SummaryText(f, status, project) ==
    "Here are the current " \o (IF status # "all" THEN status \o " " ELSE "")
    \o "todos " \o (IF Truthy(project) THEN "for project " \o The(project) \o " " ELSE "")
    \o "to summarize:\n\n"
    \o Join("\n", [i \in 1..Len(f) |-> SummaryLine(f[i])])
    \o "\n\nPlease provide a concise summary of these todos and suggest an approach to tackle them efficiently."

summarize_todos(d, status, project) ==
    SummaryText(filtered_todos(d, status, project), status, project)

\* -------------------------------------------------------- suggest_next_todo
RECURSIVE NotCompleted(_)
\* [t for t in todos.values() if t.status != TodoStatus.COMPLETED]
NotCompleted(xs) ==
    IF xs = <<>> THEN <<>>
    ELSE IF xs[1].status # COMPLETED THEN <<xs[1]>> \o NotCompleted(Tail(xs))
    ELSE NotCompleted(Tail(xs))

\* (variant: completed tasks are not left out)
pending_todos_all(d) == Values(d)
pending_todos(d) == NotCompleted(Values(d))

\* key=lambda t: (-t.priority, t.created_at), compared as tuples
KeyLess(a, b) ==
    \/ -a.priority < -b.priority
    \/ (-a.priority = -b.priority /\ a.created_at < b.created_at)

RECURSIVE InsertSorted(_, _)
\* x placed behind every element that does not sort after it (sorted() is stable)
InsertSorted(x, s) ==
    IF s = <<>> THEN <<x>>
    ELSE IF KeyLess(x, s[1]) THEN <<x>> \o s
    ELSE <<s[1]>> \o InsertSorted(x, Tail(s))

RECURSIVE Sorted(_)
Sorted(xs) ==
    IF xs = <<>> THEN <<>>
    ELSE InsertSorted(xs[Len(xs)], Sorted(SubSeq(xs, 1, Len(xs) - 1)))

sorted_todos(d) == Sorted(pending_todos(d))

SuggestLine(t) ==
    "- " \o t.title \o " (Priority: " \o ToString(t.priority)
    \o ", Status: " \o t.status \o "): " \o t.description

\* the prompt text for the sorted tasks s
SuggestText(s) ==
    "Here are the current pending todos in order of priority:\n\n"
    \o Join("\n", [i \in 1..Len(s) |-> SuggestLine(s[i])])
    \o "\n\nBased on these todos, which one should I tackle next and why? Please provide a brief recommendation."

suggest_next_todo(d) ==
    IF pending_todos(d) = <<>>
    THEN "There are no pending todos. Would you like suggestions for new coding tasks to add?"
    ELSE SuggestText(sorted_todos(d))

\* ------------------------------------------------- initialize_example_todos
ExampleTodos(dflt) ==
    << Todo("todo1", "Implement user authentication",
            "Add JWT-based authentication to the API endpoints",
            Some("Backend API"), 4, <<"backend", "security">>, dflt),
       Todo("todo2", "Fix CSS responsiveness",
            "The dashboard layout breaks on mobile devices",
            Some("Frontend UI"), 3, <<"frontend", "css", "bugfix">>, dflt),
       Todo("todo3", "Write unit tests",
            "Create tests for the new data processing module",
            Some("Backend API"), 2, <<"testing", "quality">>, dflt) >>

RECURSIVE StoreAll(_, _)
\* for todo in example_todos: todos[todo.id] = todo
StoreAll(d, xs) ==
    IF xs = <<>> THEN d ELSE StoreAll(SetItem(d, xs[1].id, xs[1]), Tail(xs))

initialize_example_todos(d, dflt) == StoreAll(d, ExampleTodos(dflt))

\* --------------------------------------------------------- the inputs tried
Ids == {TodoId(n) : n \in 0..MaxTodos}
StatusArgs == TodoStatusValues \cup {"done"}

\* (status, project) of summarize_todos: the defaults first
SummaryFilters ==
    { [status |-> PENDING, project |-> None],
      [status |-> "all", project |-> Some("")],
      [status |-> PENDING, project |-> Some("Backend API")],
      [status |-> COMPLETED, project |-> None] }

\* (title, description, project, priority, tags) of add_todo
AddArgs ==
    { [title |-> "A", description |-> "B", project |-> None, priority |-> 3,
       tags |-> Some(<<"x">>)],
      [title |-> "B", description |-> "", project |-> Some(""), priority |-> 1,
       tags |-> None],
      [title |-> "B", description |-> "B", project |-> Some("Backend API"), priority |-> 6,
       tags |-> Some(<<>>)] }

\* (title, description, project, priority, tags) of update_todo
UpdateArgs ==
    { [title |-> None, description |-> None, project |-> None, priority |-> None,
       tags |-> None],
      [title |-> Some("B"), description |-> Some("B"), project |-> Some("Backend API"),
       priority |-> Some(6), tags |-> Some(<<"x">>)],
      [title |-> None, description |-> None, project |-> None, priority |-> Some(0),
       tags |-> None],
      [title |-> Some("A"), description |-> None, project |-> None,
       priority |-> Some(1), tags |-> None],
      [title |-> Some(""), description |-> Some(""), project |-> Some(""),
       priority |-> Some(5), tags |-> Some(<<>>)] }

\* ------------------------------------------------------------ the machine
Ran(op, id, args, result) ==
    [op |-> op, id |-> id, args |-> args, at |-> now', result |-> result, pre |-> todos]

\* the module is imported (todos = {}), and run as a script it is seeded
Boot ==
    /\ created_dflt = 0
    /\ now = 0
    /\ \/ /\ todos = <<>>
          /\ born = [k \in {} |-> 0]
          /\ nCreated = 0
       \/ /\ todos = initialize_example_todos(<<>>, 0)
          /\ born = [k \in {TodoId(1), TodoId(2), TodoId(3)} |->
                        CHOOSE n \in 1..3 : k = TodoId(n)]
          /\ nCreated = 3
    /\ last = [op |-> "init", id |-> "", args |-> <<>>, at |-> 0,
               result |-> Returned(""), pre |-> <<>>]

Init == Boot /\ horizon = MaxTime
InitLong == Boot /\ horizon = MaxTimeLong

\* a request arrives, at a later reading of the clock than the one before it
Arrive ==
    /\ now < horizon
    /\ now' = now + 1
    /\ UNCHANGED horizon

AddTodo(a) ==
    /\ Arrive
    /\ Len(todos) < MaxTodos
    /\ todos' = add_todo_store(todos, a, created_dflt)
    /\ born' = [k \in Keys(todos') |->
                   IF k = NewTodoId(todos) THEN nCreated + 1 ELSE born[k]]
    /\ nCreated' = nCreated + 1
    /\ last' = Ran("add_todo", NewTodoId(todos), a, add_todo_result(todos, a))
    /\ UNCHANGED created_dflt

UpdateTodoStatus(id, status) ==
    /\ Arrive
    /\ todos' = update_todo_status_store(todos, id, status, now')
    /\ last' = Ran("update_todo_status", id, [status |-> status],
                   update_todo_status_result(todos, id, status))
    /\ UNCHANGED <<created_dflt, born, nCreated>>

UpdateTodo(id, a) ==
    /\ Arrive
    /\ todos' = update_todo_store(todos, id, a, now')
    /\ last' = Ran("update_todo", id, a, update_todo_result(todos, id, a))
    /\ UNCHANGED <<created_dflt, born, nCreated>>

DeleteTodo(id) ==
    /\ Arrive
    /\ todos' = delete_todo_store(todos, id)
    /\ born' = [k \in Keys(todos') |-> born[k]]
    /\ last' = Ran("delete_todo", id, <<>>, delete_todo_result(todos, id))
    /\ UNCHANGED <<created_dflt, nCreated>>

GetTodoList ==
    /\ Arrive
    /\ last' = Ran("get_todo_list", "", <<>>, Returned(get_todo_list(todos)))
    /\ UNCHANGED <<todos, created_dflt, born, nCreated>>

GetTodoItem(id) ==
    /\ Arrive
    /\ last' = Ran("get_todo_item", id, <<>>, get_todo_item(todos, id))
    /\ UNCHANGED <<todos, created_dflt, born, nCreated>>

SummarizeTodos(status, project) ==
    /\ Arrive
    /\ last' = Ran("summarize_todos", "", [status |-> status, project |-> project],
                   Returned(summarize_todos(todos, status, project)))
    /\ UNCHANGED <<todos, created_dflt, born, nCreated>>

SuggestNextTodo ==
    /\ Arrive
    /\ last' = Ran("suggest_next_todo", "", <<>>, Returned(suggest_next_todo(todos)))
    /\ UNCHANGED <<todos, created_dflt, born, nCreated>>

Next ==
    \/ \E a \in AddArgs : AddTodo(a)
    \/ \E id \in Ids, status \in StatusArgs : UpdateTodoStatus(id, status)
    \/ \E id \in Ids, a \in UpdateArgs : UpdateTodo(id, a)
    \/ \E id \in Ids : DeleteTodo(id)
    \/ GetTodoList
    \/ \E id \in Ids : GetTodoItem(id)
    \/ \E f \in SummaryFilters : SummarizeTodos(f.status, f.project)
    \/ SuggestNextTodo

Spec == Init /\ [][Next]_vars

\* the same machine followed for one more request
SpecLong == InitLong /\ [][Next]_vars

\* ------------------------------------------------- the error taxonomy
\* the three failures the handlers raise, told apart by their message
NotFound(r) == r.raised /\ \E id \in Ids : r.text = NotFoundMsg(id)
InvalidStatus(r) == r.raised /\ \E st \in StatusArgs : r.text = InvalidStatusMsg(st)
InvalidPriority(r) == r.raised /\ r.text = InvalidPriorityMsg

\* the last request was a resource or a prompt: the store is as the request before
\* it left it, and what holds of every store is examined there
ReadOnly ==
    last.op \in {"get_todo_list", "get_todo_item", "summarize_todos", "suggest_next_todo"}

\* the dict with the entry of key k left out, the rest in place
Without(d, k) == LET Other(e) == e.key # k IN SelectSeq(d, Other)

\* C1: the id add_todo returns is the id of no task that was in the store when
\* it was called.
C1_CreateIdIsFresh ==
    last.op = "add_todo" => ~Has(last.pre, last.id)

\* C2: a handler that raises (NotFound, InvalidStatus, InvalidPriority) leaves the
\* whole store as it was before the call.
C2_FailureLeavesStore ==
    last.result.raised => todos = last.pre

\* C3: every stored task has a priority in 1..5, in every reachable state.
C3_PriorityInRange ==
    \A i \in 1..Len(todos) : todos[i].val.priority \in 1..5

\* C4: update_todo on an existing task with a priority argument: outside 1..5 it
\* raises InvalidPriority and the stored priority stays; inside 1..5 it returns
\* and the stored priority is the argument.
C4_UpdatePriority ==
    (last.op = "update_todo" /\ Has(last.pre, last.id) /\ ~IsNone(last.args.priority)) =>
        LET p == The(last.args.priority)
        IN  /\ Has(todos, last.id)
            /\ IF p < 1 \/ p > 5
               THEN /\ InvalidPriority(last.result)
                    /\ Get(todos, last.id).priority = Get(last.pre, last.id).priority
               ELSE /\ ~last.result.raised
                    /\ Get(todos, last.id).priority = p

\* update_todo has just rejected priority 6 for a task that stays at another priority
C4_Witness ==
    /\ last.op = "update_todo"
    /\ Has(last.pre, last.id)
    /\ last.args.priority = Some(6)
    /\ InvalidPriority(last.result)
    /\ Get(todos, last.id).priority = 4

\* C5: update_todo_status on an existing task with a value that is none of
\* pending, in_progress, completed raises InvalidStatus and leaves the task's
\* status and updated_at as they were.
C5_InvalidStatusKeepsTask ==
    (/\ last.op = "update_todo_status"
     /\ Has(last.pre, last.id)
     /\ last.args.status \notin {"pending", "in_progress", "completed"}) =>
        /\ InvalidStatus(last.result)
        /\ Has(todos, last.id)
        /\ Get(todos, last.id).status = Get(last.pre, last.id).status
        /\ Get(todos, last.id).updated_at = Get(last.pre, last.id).updated_at

\* update_todo_status has just rejected "done", at a later reading of the clock, for
\* a completed task
C5_Witness ==
    /\ last.op = "update_todo_status"
    /\ Has(last.pre, last.id)
    /\ last.args.status = "done"
    /\ InvalidStatus(last.result)
    /\ Get(todos, last.id).status = COMPLETED
    /\ Get(todos, last.id).updated_at = Some(1)
    /\ last.at = 2

\* C6: right after add_todo, the task stored under the returned id has the title,
\* description, project, priority and tags of the call, that id, status pending and
\* no updated_at.
C6_CreateThenGet ==
    last.op = "add_todo" =>
        /\ last.result = Returned("Added todo '" \o last.args.title
                                  \o "' with ID: " \o last.id)
        /\ Has(todos, last.id)
        /\ LET t == Get(todos, last.id)
           IN  /\ t.id = last.id
               /\ t.title = last.args.title
               /\ t.description = last.args.description
               /\ t.project = last.args.project
               /\ t.priority = last.args.priority
               /\ t.tags = (IF IsNone(last.args.tags) THEN <<>> ELSE The(last.args.tags))
               /\ t.status = "pending"
               /\ t.updated_at = None

\* add_todo(title="A", description="B", priority=3, tags=["x"]) has just run on a
\* store that holds another task
C6_Witness ==
    /\ last.op = "add_todo"
    /\ last.args.title = "A" /\ last.args.description = "B"
    /\ last.args.priority = 3 /\ last.args.tags = Some(<<"x">>)
    /\ Len(todos) >= 2
    /\ Get(todos, last.id).tags = <<"x">>

\* C7: the suggestion list holds exactly the tasks that are not completed, by
\* priority descending, and of two tasks of equal priority the one created
\* earlier comes first.
C7_SuggestionOrder ==
    LET s == sorted_todos(todos)
        open == {i \in 1..Len(todos) : todos[i].val.status # "completed"}
    IN  /\ Len(s) = Cardinality(open)
        /\ {s[i] : i \in 1..Len(s)} = {todos[i].val : i \in open}
        /\ \A i, j \in 1..Len(s) :
              i < j => \/ s[i].priority > s[j].priority
                       \/ /\ s[i].priority = s[j].priority
                          /\ born[s[i].id] < born[s[j].id]

\* C8: the created_at of the task add_todo has just stored is the reading of the
\* clock at that call.
C8_CreatedAtIsClock ==
    last.op = "add_todo" => Get(todos, last.id).created_at = last.at

\* the filters the summary is asked for
StatusFilterArgs == {"pending", "in_progress", "completed", "all", "done"}
ProjectFilterArgs == {None, Some(""), Some("Backend API"), Some("Frontend UI")}

\* the stored tasks, in the order of the store, that the claimed rule selects
ClaimedSelection(d, status, project) ==
    LET Keep(t) == /\ (status = "all" \/ t.status = status)
                   /\ (IsNone(project) \/ t.project = project)
    IN  SelectSeq(Values(d), Keep)

\* the same with an empty project filter counted as no filter
AmendedSelection(d, status, project) ==
    LET Keep(t) == /\ (status = "all" \/ t.status = status)
                   /\ (IsNone(project) \/ project = Some("") \/ t.project = project)
    IN  SelectSeq(Values(d), Keep)

\* C9 as stated: summarize_todos lists, one line each and in the order of the
\* store, exactly the tasks t with (status filter is "all" or t.status is the
\* filter) and (project filter is not given or t.project is the filter).
C9_SummarySelects ==
    last.op = "summarize_todos" =>
        last.result = Returned(SummaryText(
            ClaimedSelection(todos, last.args.status, last.args.project),
            last.args.status, last.args.project))

\* C9 as amended: the same, with a project filter that is not given or is the
\* empty string selecting every project.
C9_SummarySelectsAmended ==
    /\ ~ReadOnly =>
          \A st \in StatusFilterArgs, pr \in ProjectFilterArgs :
              filtered_todos(todos, st, pr) = AmendedSelection(todos, st, pr)
    /\ last.op = "summarize_todos" =>
          last.result = Returned(SummaryText(
              AmendedSelection(todos, last.args.status, last.args.project),
              last.args.status, last.args.project))

\* summarize_todos("pending") has just run on tasks that are pending, completed,
\* pending, and selects the first and the third
C9_Witness ==
    /\ last.op = "summarize_todos"
    /\ last.args.status = "pending" /\ IsNone(last.args.project)
    /\ Len(todos) = 3
    /\ todos[1].val.status = "pending"
    /\ todos[2].val.status = "completed"
    /\ todos[3].val.status = "pending"
    /\ filtered_todos(todos, "pending", None) = <<todos[1].val, todos[3].val>>

\* C10: delete_todo of an existing id removes that entry and no other, and
\* get_todo_item and delete_todo of the same id then raise NotFound.
C10_DeleteRemovesOne ==
    (last.op = "delete_todo" /\ Has(last.pre, last.id)) =>
        /\ ~last.result.raised
        /\ todos = Without(last.pre, last.id)
        /\ Len(todos) = Len(last.pre) - 1
        /\ NotFound(get_todo_item(todos, last.id))
        /\ NotFound(delete_todo_result(todos, last.id))

\* delete_todo has just removed the second of three tasks
C10_Witness ==
    /\ last.op = "delete_todo"
    /\ Len(last.pre) = 3
    /\ last.pre[2].key = last.id
    /\ Len(todos) = 2

\* the last request was update_todo_status or update_todo and it returned
Updated == last.op \in {"update_todo_status", "update_todo"} /\ ~last.result.raised

\* C11: updated_at is absent on a new task and changes only when
\* update_todo_status or update_todo returns for that task, which sets it to the
\* reading of the clock at that request, also when update_todo is given no field.
C11_UpdatedAtStamp ==
    /\ Updated => /\ Has(todos, last.id)
                  /\ Get(todos, last.id).updated_at = Some(last.at)
    /\ last.op = "add_todo" => Get(todos, last.id).updated_at = {}
    /\ \A i \in 1..Len(todos) :
          LET k == todos[i].key
          IN  (/\ last.op # "init"
               /\ Has(last.pre, k)
               /\ ~(Updated /\ last.id = k)
               /\ ~(last.op = "add_todo" /\ last.id = k)) =>
                  todos[i].val.updated_at = Get(last.pre, k).updated_at

\* update_todo with no field given has just returned for a task that had never
\* been updated
C11_Witness ==
    /\ last.op = "update_todo"
    /\ ~last.result.raised
    /\ last.args.title = {} /\ last.args.description = {} /\ last.args.project = {}
    /\ last.args.priority = {} /\ last.args.tags = {}
    /\ Get(last.pre, last.id).updated_at = {}
    /\ Get(todos, last.id).updated_at = {last.at}
    /\ last.at = 2

\* the places in the store of the tasks that are not completed
OpenPlaces == {i \in 1..Len(todos) : todos[i].val.status # "completed"}

\* C12: suggest_next_todo returns the fixed "no pending todos" message when no
\* stored task has a status other than completed (also on the empty store), and
\* otherwise a list with one line for each task that is not completed.
C12_SuggestMessageOrList ==
    last.op = "suggest_next_todo" =>
        IF OpenPlaces = {}
        THEN last.result = Returned(
                "There are no pending todos. Would you like suggestions for new coding tasks to add?")
        ELSE \E s \in [1..Cardinality(OpenPlaces) -> {todos[i].val : i \in OpenPlaces}] :
                /\ \A i \in OpenPlaces :
                      Cardinality({j \in DOMAIN s : s[j] = todos[i].val}) = 1
                /\ last.result = Returned(SuggestText(s))

\* suggest_next_todo has just answered with the fixed message on a store whose
\* only task is completed
C12_Witness ==
    /\ last.op = "suggest_next_todo"
    /\ Len(todos) = 1
    /\ todos[1].val.status = "completed"
    /\ last.result.text =
          "There are no pending todos. Would you like suggestions for new coding tasks to add?"

\* C13: the status of every stored task is one of pending, in_progress,
\* completed; it is pending right after add_todo; and update_todo_status with any
\* of the three values returns for a task in any status and sets that value.
C13_StatusAlwaysSettable ==
    /\ \A i \in 1..Len(todos) :
          todos[i].val.status \in {"pending", "in_progress", "completed"}
    /\ last.op = "add_todo" => Get(todos, last.id).status = "pending"
    /\ (/\ last.op = "update_todo_status"
        /\ Has(last.pre, last.id)
        /\ last.args.status \in {"pending", "in_progress", "completed"}) =>
            /\ ~last.result.raised
            /\ Get(todos, last.id).status = last.args.status
    /\ ~ReadOnly =>
          \A i \in 1..Len(todos), st \in {"pending", "in_progress", "completed"} :
              /\ ~update_todo_status_result(todos, todos[i].key, st).raised
              /\ Get(update_todo_status_store(todos, todos[i].key, st, now + 1),
                     todos[i].key).status = st

\* update_todo_status has just reopened a completed task
C13_Witness ==
    /\ last.op = "update_todo_status"
    /\ Has(last.pre, last.id)
    /\ Get(last.pre, last.id).status = "completed"
    /\ last.args.status = "pending"
    /\ ~last.result.raised
    /\ Get(todos, last.id).status = "pending"

\* C14: add_todo returns the id "todo" followed by n+1, n being the number of
\* tasks stored when it is called, and stores the task under that id.
C14_IdFromStoreSize ==
    last.op = "add_todo" =>
        /\ last.id = "todo" \o ToString(Len(last.pre) + 1)
        /\ last.result.text =
              "Added todo '" \o last.args.title \o "' with ID: todo"
              \o ToString(Len(last.pre) + 1)
        /\ Has(todos, "todo" \o ToString(Len(last.pre) + 1))

\* after a delete, add_todo has just returned an id that was issued before: the
\* id of a task still in the store, with fewer tasks stored than were ever built
C14_Witness ==
    /\ last.op = "add_todo"
    /\ Has(last.pre, last.id)
    /\ Len(last.pre) < nCreated - 1
    /\ last.id = "todo3"

\* the value a field has after an update given the argument arg: the argument
\* when there is one, the old value otherwise
Overwritten(arg, old) == IF arg = {} THEN old ELSE CHOOSE v \in arg : TRUE

\* C15: an update_todo that returns overwrites title, description, project,
\* priority and tags where the argument is given (an empty string included) and
\* keeps them where it is not; it keeps the task's id, status and created_at, and
\* every other task of the store.
C15_UpdateFieldsFrame ==
    (last.op = "update_todo" /\ ~last.result.raised) =>
        /\ Has(last.pre, last.id)
        /\ Len(todos) = Len(last.pre)
        /\ \A i \in 1..Len(todos) :
              /\ todos[i].key = last.pre[i].key
              /\ todos[i].key # last.id => todos[i] = last.pre[i]
        /\ LET old == Get(last.pre, last.id)
               new == Get(todos, last.id)
           IN  /\ new.title = Overwritten(last.args.title, old.title)
               /\ new.description = Overwritten(last.args.description, old.description)
               /\ new.project = (IF last.args.project = {} THEN old.project
                                 ELSE last.args.project)
               /\ new.priority = Overwritten(last.args.priority, old.priority)
               /\ new.tags = Overwritten(last.args.tags, old.tags)
               /\ new.id = old.id
               /\ new.status = old.status
               /\ new.created_at = old.created_at

\* update_todo has just set title, description and project of the second of three
\* tasks to the empty string, and its priority to 5
C15_Witness ==
    /\ last.op = "update_todo"
    /\ ~last.result.raised
    /\ last.args.title = {""} /\ last.args.project = {""}
    /\ Len(todos) = 3
    /\ todos[2].key = last.id
    /\ last.pre[2].val.title = "Fix CSS responsiveness"
    /\ todos[2].val.title = ""
    /\ todos[2].val.project = {""}
    /\ todos[2].val.priority = 5

\* the stored entries in the order in which their tasks were created
InCreationOrder(d) ==
    LET place == CHOOSE f \in [1..Len(d) -> 1..Len(d)] :
                    /\ \A i, j \in 1..Len(d) : i # j => f[i] # f[j]
                    /\ \A i, j \in 1..Len(d) :
                          i < j => born[d[f[i]].key] < born[d[f[j]].key]
    IN  [i \in 1..Len(d) |-> d[place[i]]]

C17_NotFoundFirst ==
    last.op \in {"update_todo_status", "update_todo", "delete_todo", "get_todo_item"} =>
        /\ (last.result.raised /\ last.result.text = "Todo not found: " \o last.id)
              <=> ~Has(last.pre, last.id)
        /\ ~Has(last.pre, last.id) =>
              /\ ~InvalidStatus(last.result)
              /\ ~InvalidPriority(last.result)
              /\ todos = last.pre

\* update_todo has just been given priority 6 for an id that is not stored, in a
\* store that holds other tasks, and raised NotFound
C17_Witness ==
    /\ last.op = "update_todo"
    /\ last.args.priority = {6}
    /\ ~Has(last.pre, last.id)
    /\ Len(last.pre) = 3
    /\ NotFound(last.result)

\* C18: add_todo removes and alters no task already stored: every entry of the
\* store before the call is there after it, under the same id and with the same
\* fields, and the store holds one task more.
C18_CreateKeepsOthers ==
    last.op = "add_todo" =>
        /\ Len(todos) = Len(last.pre) + 1
        /\ \A i \in 1..Len(last.pre) :
              \E j \in 1..Len(todos) : todos[j] = last.pre[i]

\* C19: a stored task whose updated_at is absent has the fields it was created
\* with: no request, returning or raising, leaves a task that was already stored
\* with changed fields and no updated_at.
C19_UnstampedIsUntouched ==
    \A i \in 1..Len(todos) :
        LET k == todos[i].key
        IN  (/\ last.op # "init"
             /\ ~(last.op = "add_todo" /\ last.id = k)
             /\ Has(last.pre, k)
             /\ todos[i].val.updated_at = {}) =>
                todos[i].val = Get(last.pre, k)

\* C20: the id field of every stored task is the key it is stored under.
C20_IdIsKey ==
    \A i \in 1..Len(todos) : todos[i].val.id = todos[i].key

\* add_todo has just stored a task over a seeded one, beside a task that
\* update_todo has changed
C20_Witness ==
    /\ last.op = "add_todo"
    /\ Has(last.pre, last.id)
    /\ Len(todos) = 2
    /\ todos[2].key = last.id
    /\ todos[2].val.id = "todo3"
    /\ todos[1].val.id = "todo2"
    /\ todos[1].val.updated_at # {}
====
